---- MODULE Spec2Model ----
(***************************************************************************)
(* Request canonicalisation and signing of the aliyun SMS client            *)
(* (package sms): the parameter store, SpecialURLEncode, SortedQueryStr,    *)
(* SignedString and Send.  Strings are sequences of one-character strings,  *)
(* so that escaping, replacing, sorting and joining are computed byte by    *)
(* byte as the code computes them.                                          *)
(***************************************************************************)
EXTENDS Integers, Sequences, FiniteSets, TLC

(***************************************************************************)
(* Bytes and strings                                                        *)
(***************************************************************************)

\* The printable ASCII characters, in byte order: Ascii[i] is byte 31 + i
\* (byte 96 is spelled GRAVE).
Ascii ==
  <<
    " ", "!", "\"", "#", "$", "%", "&", "'", "(", ")", "*", "+", ",", "-", ".", "/",
    "0", "1", "2", "3", "4", "5", "6", "7", "8", "9", ":", ";", "<", "=", ">", "?",
    "@", "A", "B", "C", "D", "E", "F", "G", "H", "I", "J", "K", "L", "M", "N", "O",
    "P", "Q", "R", "S", "T", "U", "V", "W", "X", "Y", "Z", "[", "\\", "]", "^", "_",
    "GRAVE", "a", "b", "c", "d", "e", "f", "g", "h", "i", "j", "k", "l", "m", "n", "o",
    "p", "q", "r", "s", "t", "u", "v", "w", "x", "y", "z", "{", "|", "}", "~"
  >>

Chars == {Ascii[i] : i \in 1..Len(Ascii)}

\* The byte value of a character.
Ord == [c \in Chars |-> 31 + (CHOOSE i \in 1..Len(Ascii) : Ascii[i] = c)]

\* Byte-wise string ordering (the < of Go strings).
RECURSIVE Less(_, _)
Less(a, b) ==
  IF b = <<>> THEN FALSE
  ELSE IF a = <<>> THEN TRUE
  ELSE IF Head(a) = Head(b) THEN Less(Tail(a), Tail(b))
  ELSE Ord[Head(a)] < Ord[Head(b)]

\* a is a prefix of s.
HasPrefix(s, a) == Len(a) <= Len(s) /\ SubSeq(s, 1, Len(a)) = a

\* s contains a as a substring.
Contains(s, a) == \E i \in 0..(Len(s) - Len(a)) : SubSeq(s, i + 1, i + Len(a)) = a

\* The concatenation of pieces[lo..hi], by halves.
RECURSIVE Concat(_, _, _)
Concat(pieces, lo, hi) ==
  IF lo > hi THEN <<>>
  ELSE IF lo = hi THEN pieces[lo]
  ELSE LET mid == (lo + hi) \div 2
       IN  Concat(pieces, lo, mid) \o Concat(pieces, mid + 1, hi)

\* strings.Replace(s, old, new, -1) for a non-empty old: every
\* non-overlapping occurrence, scanning from the left (one step per
\* occurrence: the leftmost one is replaced and the scan resumes after it).
RECURSIVE Replace(_, _, _)
Replace(s, old, new) ==
  LET at == {i \in 1..(Len(s) - Len(old) + 1) : SubSeq(s, i, i + Len(old) - 1) = old}
  IN  IF at = {} THEN s
      ELSE LET j == CHOOSE i \in at : \A k \in at : i <= k
           IN  SubSeq(s, 1, j - 1) \o new
                 \o Replace(SubSeq(s, j + Len(old), Len(s)), old, new)

\* strings.ToUpper on ASCII.
ToUpper(s) ==
  [i \in 1..Len(s) |->
     IF Ord[s[i]] >= 97 /\ Ord[s[i]] <= 122 THEN Ascii[Ord[s[i]] - 32 - 31] ELSE s[i]]

\* Joins a sequence of strings with a separator.
Join(ss, sep) ==
  Concat([i \in 1..Len(ss) |-> IF i = 1 THEN ss[i] ELSE sep \o ss[i]], 1, Len(ss))

(***************************************************************************)
(* net/url escaping, as called by the package                               *)
(***************************************************************************)

upperhex == <<"0", "1", "2", "3", "4", "5", "6", "7", "8", "9", "A", "B", "C", "D", "E", "F">>

IsAlnum(c) ==
  \/ (Ord[c] >= 48 /\ Ord[c] <= 57)
  \/ (Ord[c] >= 65 /\ Ord[c] <= 90)
  \/ (Ord[c] >= 97 /\ Ord[c] <= 122)

\* url.shouldEscape(c, encodeQueryComponent): only the unreserved characters
\* are left alone.
shouldEscape(c) == ~(IsAlnum(c) \/ c \in {"-", "_", ".", "~"})

\* url.QueryEscape: a space becomes "+", every other escaped byte %XX.
escape(c) ==
  IF c = " " THEN <<"+">>
  ELSE IF shouldEscape(c)
    THEN <<"%", upperhex[(Ord[c] \div 16) + 1], upperhex[(Ord[c] % 16) + 1]>>
    ELSE <<c>>

QueryEscape(s) == Concat([i \in 1..Len(s) |-> escape(s[i])], 1, Len(s))

\* SpecialURLEncode with the corrections left out.
SpecialURLEncodeUncorrected(str) == QueryEscape(str)

\* SpecialURLEncode: QueryEscape followed by the three corrections.
SpecialURLEncode(str) ==
  LET encodedStr0 == QueryEscape(str)
      encodedStr1 == Replace(encodedStr0, <<"+">>, <<"%", "2", "0">>)
      encodedStr2 == Replace(encodedStr1, <<"*">>, <<"%", "2", "A">>)
  IN  Replace(encodedStr2, <<"%", "7", "E">>, <<"~">>)

\* url.Values.Encode sorts the raw keys with sort.Strings: insertion into a
\* sorted sequence.
RECURSIVE InsertSorted(_, _)
InsertSorted(sorted, k) ==
  IF sorted = <<>> THEN <<k>>
  ELSE IF Less(k, Head(sorted)) THEN <<k>> \o sorted
  ELSE <<Head(sorted)>> \o InsertSorted(Tail(sorted), k)

\* sort.Strings leaving the keys in the order it found them.
SortStringsKeepsOrder(keys) == keys

RECURSIVE SortStrings(_)
SortStrings(keys) ==
  IF keys = <<>> THEN <<>>
  ELSE InsertSorted(SortStrings(Tail(keys)), Head(keys))

\* Encode writing the pairs in map order, without sorting the keys.
EncodeInMapOrder(values, keys) ==
  Join([i \in 1..Len(keys) |->
          QueryEscape(keys[i]) \o <<"=">> \o QueryEscape(values[keys[i]])],
       <<"&">>)

\* url.Values.Encode: the keys, collected in map order `keys`, are sorted
\* raw; then each key and value goes through QueryEscape and the pairs are
\* joined with "&".
Encode(values, keys) ==
  LET sorted == SortStrings(keys)
  IN  Join([i \in 1..Len(sorted) |->
              QueryEscape(sorted[i]) \o <<"=">> \o QueryEscape(values[sorted[i]])],
           <<"&">>)

\* m with m[k] set to v (a Go map assignment).
Put(m, k, v) == [x \in (DOMAIN m) \cup {k} |-> IF x = k THEN v ELSE m[x]]

\* SortedQueryStr: ranges over Params in map order `order` (Go leaves the
\* order of a map range unspecified), copies each entry into a url.Values
\* and returns its Encode.
RECURSIVE SetAll(_, _, _)
SetAll(values, Params, order) ==
  IF order = <<>> THEN values
  ELSE SetAll(Put(values, Head(order), Params[Head(order)]), Params, Tail(order))

SortedQueryStr(Params, order) == Encode(SetAll(<<>>, Params, order), order)

(***************************************************************************)
(* crypto/hmac, crypto/sha1 and encoding/base64, as called by SignedString  *)
(***************************************************************************)

\* sha1.Size: the digest is 20 bytes.
Size == 20

\* A position-weighted checksum of s[lo..hi], by halves, standing for the
\* hash: the digest is a deterministic function of key and message and of
\* nothing else.
RECURSIVE Checksum(_, _, _)
Checksum(s, lo, hi) ==
  IF lo > hi THEN 0
  ELSE IF lo = hi THEN (Ord[s[lo]] * ((lo % 251) + 1)) % 65521
  ELSE LET mid == (lo + hi) \div 2
       IN  (Checksum(s, lo, mid) + Checksum(s, mid + 1, hi)) % 65521

\* hmac.New(sha1.New, key); mac.Write(msg); mac.Sum(nil).
Sum(key, msg) ==
  LET h == (Checksum(key, 1, Len(key)) * 257 + Checksum(msg, 1, Len(msg))) % 65521
  IN  [i \in 1..Size |-> (h * i + (h \div (i + 1)) + 13 * i * i) % 256]

\* base64.StdEncoding: the alphabet and the padding character.
encodeStd ==
  <<
    "A", "B", "C", "D", "E", "F", "G", "H", "I", "J", "K", "L", "M", "N", "O", "P",
    "Q", "R", "S", "T", "U", "V", "W", "X", "Y", "Z", "a", "b", "c", "d", "e", "f",
    "g", "h", "i", "j", "k", "l", "m", "n", "o", "p", "q", "r", "s", "t", "u", "v",
    "w", "x", "y", "z", "0", "1", "2", "3", "4", "5", "6", "7", "8", "9", "+", "/"
  >>

RECURSIVE EncodeToString(_)
EncodeToString(src) ==
  IF src = <<>> THEN <<>>
  ELSE IF Len(src) = 1 THEN
    <<encodeStd[(src[1] \div 4) + 1], encodeStd[((src[1] % 4) * 16) + 1], "=", "=">>
  ELSE IF Len(src) = 2 THEN
    <<encodeStd[(src[1] \div 4) + 1],
      encodeStd[((src[1] % 4) * 16 + (src[2] \div 16)) + 1],
      encodeStd[((src[2] % 16) * 4) + 1], "=">>
  ELSE
    <<encodeStd[(src[1] \div 4) + 1],
      encodeStd[((src[1] % 4) * 16 + (src[2] \div 16)) + 1],
      encodeStd[((src[2] % 16) * 4 + (src[3] \div 64)) + 1],
      encodeStd[(src[3] % 64) + 1]>>
    \o EncodeToString(SubSeq(src, 4, Len(src)))

\* The string to sign: "GET&" + url.QueryEscape("/") + "&" +
\* SpecialURLEncode(c.SortedQueryStr()).
StringToSign(Params, order) ==
  <<"G", "E", "T", "&">> \o QueryEscape(<<"/">>) \o <<"&">>
    \o SpecialURLEncode(SortedQueryStr(Params, order))

\* Client.SignedString: the corrections applied once to the base64 digest.
SignedString(Params, accessKeySecret, order) ==
  LET str == StringToSign(Params, order)
      sign == EncodeToString(Sum(accessKeySecret \o <<"&">>, str))
  IN  SpecialURLEncode(sign)

\* SMS.SignedString: url.QueryEscape on the base64 digest, then the
\* corrections on the result.
SMSSignedString(Params, accessKeySecret, order) ==
  LET str == StringToSign(Params, order)
      sign == EncodeToString(Sum(accessKeySecret \o <<"&">>, str))
  IN  SpecialURLEncode(QueryEscape(sign))

(***************************************************************************)
(* Parameter names                                                          *)
(***************************************************************************)

KAccessKeyId == <<"A", "c", "c", "e", "s", "s", "K", "e", "y", "I", "d">>
KTimestamp == <<"T", "i", "m", "e", "s", "t", "a", "m", "p">>
KFormat == <<"F", "o", "r", "m", "a", "t">>
KSignatureMethod == <<"S", "i", "g", "n", "a", "t", "u", "r", "e", "M", "e", "t", "h", "o", "d">>
KSignatureVersion == <<"S", "i", "g", "n", "a", "t", "u", "r", "e", "V", "e", "r", "s", "i", "o", "n">>
KSignatureNonce == <<"S", "i", "g", "n", "a", "t", "u", "r", "e", "N", "o", "n", "c", "e">>
KAction == <<"A", "c", "t", "i", "o", "n">>
KVersion == <<"V", "e", "r", "s", "i", "o", "n">>
KRegionId == <<"R", "e", "g", "i", "o", "n", "I", "d">>
KOutId == <<"O", "u", "t", "I", "d">>
KPhoneNumbers == <<"P", "h", "o", "n", "e", "N", "u", "m", "b", "e", "r", "s">>
KSignName == <<"S", "i", "g", "n", "N", "a", "m", "e">>
KTemplateCode == <<"T", "e", "m", "p", "l", "a", "t", "e", "C", "o", "d", "e">>
KTemplateParam == <<"T", "e", "m", "p", "l", "a", "t", "e", "P", "a", "r", "a", "m">>
KSignature == <<"S", "i", "g", "n", "a", "t", "u", "r", "e">>

(***************************************************************************)
(* Timestamps, phone numbers and the Param options                          *)
(***************************************************************************)

\* The decimal digits of n >= 0.
RECURSIVE Digits(_)
Digits(n) == IF n < 10 THEN <<upperhex[n + 1]>> ELSE Digits(n \div 10) \o <<upperhex[(n % 10) + 1]>>

\* fmt's %0wd verb.
Pad(n, w) ==
  LET d == Digits(n)
  IN  IF Len(d) >= w THEN d ELSE [i \in 1..(w - Len(d)) |-> "0"] \o d

\* The string SetTimestamp stores: "%04d-%02d-%02dT%02d:%02d:%02dZ" of the
\* UTC fields of t (a time is modelled by its UTC fields).
GenTimestamp(t) ==
  Pad(t.Year, 4) \o <<"-">> \o Pad(t.Month, 2) \o <<"-">> \o Pad(t.Day, 2) \o <<"T">>
    \o Pad(t.Hour, 2) \o <<":">> \o Pad(t.Minute, 2) \o <<":">> \o Pad(t.Second, 2) \o <<"Z">>

SetTimestamp(P, t) == Put(P, KTimestamp, GenTimestamp(t))

\* SetPhoneNumbers: the numbers joined with ",", no trailing comma.
RECURSIVE JoinNums(_, _, _)
JoinNums(nums, i, str) ==
  IF i > Len(nums) THEN str
  ELSE JoinNums(nums, i + 1, str \o nums[i] \o (IF i # Len(nums) THEN <<",">> ELSE <<>>))

SetPhoneNumbers(P, nums) == Put(P, KPhoneNumbers, JoinNums(nums, 1, <<>>))

\* A Param is a deferred write of one key: [k |-> key, v |-> value].
Timestamp(t) == [k |-> KTimestamp, v |-> GenTimestamp(t)]
SignatureMethod(m) == [k |-> KSignatureMethod, v |-> m]
SignatureVersion(v) == [k |-> KSignatureVersion, v |-> v]
SignatureNonce(nonce) == [k |-> KSignatureNonce, v |-> nonce]
Action(action) == [k |-> KAction, v |-> action]
Version(v) == [k |-> KVersion, v |-> v]
RegionID(ID) == [k |-> KRegionId, v |-> ID]
\* OutID writing the access key ID entry instead of OutId.
OutIDWritesAccessKeyId(ID) == [k |-> KAccessKeyId, v |-> ID]

OutID(ID) == [k |-> KOutId, v |-> ID]

\* param.f(c)
Apply(P, param) == Put(P, param.k, param.v)

\* NewClient: a fresh map holding the access key ID.
NewClient(accessKeyID) == Put(<<>>, KAccessKeyId, accessKeyID)

\* The defaults written only for the keys the map does not hold yet.
SetDefaultsIfAbsent(P, now, UUID) ==
  LET D == Put(Put(Put(Put(Put(Put(Put(SetTimestamp(<<>>, now),
             KFormat, <<"J", "S", "O", "N">>), KSignatureMethod, <<"H", "M", "A", "C", "-", "S", "H", "A", "1">>), KSignatureVersion, <<"1", ".", "0">>),
             KSignatureNonce, UUID), KAction, <<"S", "e", "n", "d", "S", "m", "s">>), KVersion, <<"2", "0", "1", "7", "-", "0", "5", "-", "2", "5">>),
             KRegionId, <<"c", "n", "-", "h", "a", "n", "g", "z", "h", "o", "u">>)
  IN  [k \in (DOMAIN P) \cup (DOMAIN D) |-> IF k \in DOMAIN P THEN P[k] ELSE D[k]]

\* The defaults written on a map that keeps only the access key ID.
SetDefaultsFreshMap(P, now, UUID) ==
  Put(Put(Put(Put(Put(Put(Put(SetTimestamp([k \in {KAccessKeyId} |-> P[k]], now),
    KFormat, <<"J", "S", "O", "N">>), KSignatureMethod, <<"H", "M", "A", "C", "-", "S", "H", "A", "1">>), KSignatureVersion, <<"1", ".", "0">>),
    KSignatureNonce, UUID), KAction, <<"S", "e", "n", "d", "S", "m", "s">>), KVersion, <<"2", "0", "1", "7", "-", "0", "5", "-", "2", "5">>),
    KRegionId, <<"c", "n", "-", "h", "a", "n", "g", "z", "h", "o", "u">>)

\* The defaults Send writes first: timestamp, format, signature method and
\* version, nonce, action, version, region.
SetDefaults(P, now, UUID) ==
  LET p1 == SetTimestamp(P, now)
      p2 == Put(p1, KFormat, <<"J", "S", "O", "N">>)
      p3 == Put(p2, KSignatureMethod, <<"H", "M", "A", "C", "-", "S", "H", "A", "1">>)
      p4 == Put(p3, KSignatureVersion, <<"1", ".", "0">>)
      p5 == Put(p4, KSignatureNonce, UUID)
      p6 == Put(p5, KAction, <<"S", "e", "n", "d", "S", "m", "s">>)
      p7 == Put(p6, KVersion, <<"2", "0", "1", "7", "-", "0", "5", "-", "2", "5">>)
  IN  Put(p7, KRegionId, <<"c", "n", "-", "h", "a", "n", "g", "z", "h", "o", "u">>)

\* The raw query with the signature appended after the parameters.
RawQuerySignatureLast(sign, sortedQueryStr) ==
  sortedQueryStr \o <<"&">> \o KSignature \o <<"=">> \o sign

\* rawQuery := fmt.Sprintf("Signature=%s&%s", sign, sortedQueryStr)
RawQuery(sign, sortedQueryStr) == KSignature \o <<"=">> \o sign \o <<"&">> \o sortedQueryStr

(***************************************************************************)
(* The response                                                             *)
(***************************************************************************)

FRequestId == "RequestId"
FCode == "Code"
FMessage == "Message"
FBizId == "BizId"

\* json.Unmarshal(buf, response): a body is either not JSON or a JSON object
\* (obj, a function from field names to strings); fields the body lacks
\* decode to the empty string.  A *Response is a sequence of at most one
\* Response: <<>> is nil.
Malformed == [json |-> FALSE, obj |-> <<>>]
Object(obj) == [json |-> TRUE, obj |-> obj]

Unmarshal(buf) ==
  IF ~buf.json THEN [err |-> "Unmarshal", response |-> <<>>]
  ELSE [err |-> "nil",
        response |->
          <<[RequestID |-> IF FRequestId \in DOMAIN buf.obj THEN buf.obj[FRequestId] ELSE <<>>,
             Code |-> IF FCode \in DOMAIN buf.obj THEN buf.obj[FCode] ELSE <<>>,
             Message |-> IF FMessage \in DOMAIN buf.obj THEN buf.obj[FMessage] ELSE <<>>,
             BizID |-> IF FBizId \in DOMAIN buf.obj THEN buf.obj[FBizId] ELSE <<>>]>>]

\* The tail of Send comparing Code with "OK" as it came, without ToUpper.
OutcomeCaseSensitive(fail, buf) ==
  IF fail # "nil" THEN [ok |-> FALSE, response |-> <<>>, err |-> fail]
  ELSE LET d == Unmarshal(buf)
       IN  IF d.err # "nil" THEN [ok |-> FALSE, response |-> <<>>, err |-> d.err]
           ELSE IF d.response[1].Code # <<"O", "K">>
             THEN [ok |-> FALSE, response |-> d.response, err |-> "nil"]
             ELSE [ok |-> TRUE, response |-> d.response, err |-> "nil"]

\* The tail of Send handing back the Response it allocated when the body
\* does not decode.
OutcomeKeepsResponse(fail, buf) ==
  IF fail # "nil" THEN [ok |-> FALSE, response |-> <<>>, err |-> fail]
  ELSE LET d == Unmarshal(buf)
       IN  IF d.err # "nil"
             THEN [ok |-> FALSE,
                   response |-> <<[RequestID |-> <<>>, Code |-> <<>>, Message |-> <<>>,
                                   BizID |-> <<>>]>>,
                   err |-> d.err]
           ELSE IF ToUpper(d.response[1].Code) # <<"O", "K">>
             THEN [ok |-> FALSE, response |-> d.response, err |-> "nil"]
             ELSE [ok |-> TRUE, response |-> d.response, err |-> "nil"]

\* The tail of Send: what it returns for the outcome of http.NewRequest,
\* c.Do, ioutil.ReadAll (`fail` names the first that failed, or "nil") and
\* the body read.
Outcome(fail, buf) ==
  IF fail # "nil" THEN [ok |-> FALSE, response |-> <<>>, err |-> fail]
  ELSE LET d == Unmarshal(buf)
       IN  IF d.err # "nil" THEN [ok |-> FALSE, response |-> <<>>, err |-> d.err]
           ELSE IF ToUpper(d.response[1].Code) # <<"O", "K">>
             THEN [ok |-> FALSE, response |-> d.response, err |-> "nil"]
             ELSE [ok |-> TRUE, response |-> d.response, err |-> "nil"]

(***************************************************************************)
(* Inputs                                                                   *)
(***************************************************************************)

\* The longest params list passed to one Send.
MaxParams == 2

\* The longest params list passed to a Send that runs concurrently.
MaxConcParams == 1

\* The longest string handed to SpecialURLEncode on its own.
MaxStrLen == 3

\* The most entries a caller writes into the exported Params map directly.
MaxEncKeys == 2

Procs == {1, 2}

AccessKeyIDs == {<<"i", "d">>}
Secrets == {<<"s">>}

\* time.Now() and a caller's own time.
T1 == [Year |-> 2017, Month |-> 1, Day |-> 2, Hour |-> 3, Minute |-> 4, Second |-> 5]
T2 == [Year |-> 987, Month |-> 11, Day |-> 30, Hour |-> 23, Minute |-> 59, Second |-> 0]
Nows == {T1}

\* uuid.New()
UUIDs == {<<"u">>}

\* The call arguments.
ArgsA == [phoneNumbers |-> << <<"1">> >>, signName |-> <<"a">>,
          templateCode |-> <<"T">>, templateParam |-> <<"{", "}">>]
ArgsB == [phoneNumbers |-> << <<"1">>, <<"2">> >>, signName |-> <<"b">>,
          templateCode |-> <<"T">>, templateParam |-> <<"{", "}">>]
Args == {ArgsA, ArgsB}

\* The documented options, with sample values.
Options ==
  {Timestamp(T2), SignatureMethod(<<"M">>), SignatureVersion(<<"2">>),
   SignatureNonce(<<"n">>), SignatureNonce(<<"m">>), Action(<<"A">>),
   Version(<<"V">>), RegionID(<<"R">>), OutID(<<"o">>)}

ConcOptions == {OutID(<<"o">>)}

SeqsUpTo(S, n) == UNION {[1..m -> S] : m \in 0..n}

\* The response bodies the server may send.
Bodies ==
  {Malformed,
   Object((FCode :> <<"O", "K">>) @@ (FRequestId :> <<"r">>) @@ (FMessage :> <<"O", "K">>)
            @@ (FBizId :> <<"b">>)),
   Object((FCode :> <<"o", "k">>)),
   Object((FCode :> <<"O", "k">>) @@ (FBizId :> <<"b">>)),
   Object((FCode :> <<"K", "O">>) @@ (FRequestId :> <<"r">>) @@ (FMessage :> <<"n", "o">>))}

Failures == {"nil", "NewRequest", "Do", "ReadAll"}

\* The strings handed to SpecialURLEncode on its own.
EncChars == {"a", " ", "+", "*", "~", "%", "7", "E"}
EncStrings == SeqsUpTo(EncChars, MaxStrLen)

\* The keys and values a caller writes into the exported Params map.
EncKeys == {<<" ">>, <<"!">>, <<"~">>}
EncVals == {<<"a", " ", "b">>, <<"*">>}
EncSecrets == {<<"s">>, <<"t">>}

\* The orders in which a range over the map m may visit its keys: every
\* order for a small map, the ascending and the descending one otherwise.
RECURSIVE Ascending(_)
Ascending(S) ==
  IF S = {} THEN <<>>
  ELSE LET min == CHOOSE k \in S : \A o \in S : o = k \/ Less(k, o)
       IN  <<min>> \o Ascending(S \ {min})

Reverse(s) == [i \in 1..Len(s) |-> s[Len(s) + 1 - i]]

Perms(S) == {f \in [1..Cardinality(S) -> S] : \A k \in S : \E i \in DOMAIN f : f[i] = k}

Orders(m) ==
  IF Cardinality(DOMAIN m) <= 4 THEN Perms(DOMAIN m)
  ELSE {Ascending(DOMAIN m), Reverse(Ascending(DOMAIN m))}

(***************************************************************************)
(* State                                                                    *)
(***************************************************************************)

VARIABLES
  Params,           \* c.Params
  accessKeySecret,  \* c.accessKeySecret
  call,             \* per goroutine: where it is in Send, and Send's locals
  crashed,          \* the runtime ended the program (concurrent map access)
  pure              \* the last direct call of an exported function, and its result

vars == <<Params, accessKeySecret, call, crashed, pure>>

Idle ==
  [pc |-> "idle", args |-> <<>>, params |-> <<>>, now |-> T1, UUID |-> <<>>,
   i |-> 0, values |-> <<>>, sign |-> <<>>, sortedQueryStr |-> <<>>,
   rawQuery |-> <<>>, sent |-> 0, fail |-> "nil", buf |-> Malformed,
   ret |-> [ok |-> FALSE, response |-> <<>>, err |-> "none"]]

NoPure == [op |-> "none", in |-> <<>>, out |-> <<>>, log |-> <<>>]

Init ==
  /\ \E id \in AccessKeyIDs : Params = NewClient(id)
  /\ accessKeySecret \in Secrets
  /\ call = [p \in Procs |-> Idle]
  /\ crashed = FALSE
  /\ pure = NoPure

(***************************************************************************)
(* Send, step by step                                                       *)
(***************************************************************************)

\* Send taking a lock on entry: it waits while another call is in flight.
BeginLocked(p, args, params, now, UUID) ==
  /\ ~crashed
  /\ call[p].pc = "idle"
  /\ \A q \in Procs \ {p} : call[q].pc \in {"idle", "done"}
  /\ Params' = SetDefaults(Params, now, UUID)
  /\ call' = [call EXCEPT ![p] = [Idle EXCEPT !.pc = "override", !.args = args,
                                               !.params = params, !.now = now,
                                               !.UUID = UUID, !.i = 1]]
  /\ UNCHANGED <<accessKeySecret, crashed, pure>>

\* Entry and the defaults.
Begin(p, args, params, now, UUID) ==
  /\ ~crashed
  /\ call[p].pc = "idle"
  /\ Params' = SetDefaults(Params, now, UUID)
  /\ call' = [call EXCEPT ![p] = [Idle EXCEPT !.pc = "override", !.args = args,
                                               !.params = params, !.now = now,
                                               !.UUID = UUID, !.i = 1]]
  /\ UNCHANGED <<accessKeySecret, crashed, pure>>

\* One iteration of the loop over params.
Override(p) ==
  /\ ~crashed
  /\ call[p].pc = "override"
  /\ call[p].i <= Len(call[p].params)
  /\ Params' = Apply(Params, call[p].params[call[p].i])
  /\ call' = [call EXCEPT ![p].i = @ + 1]
  /\ UNCHANGED <<accessKeySecret, crashed, pure>>

\* The loop is over: c.SetPhoneNumbers(phoneNumbers).
RequirePhoneNumbers(p) ==
  /\ ~crashed
  /\ call[p].pc = "override"
  /\ call[p].i > Len(call[p].params)
  /\ Params' = SetPhoneNumbers(Params, call[p].args.phoneNumbers)
  /\ call' = [call EXCEPT ![p].pc = "signName"]
  /\ UNCHANGED <<accessKeySecret, crashed, pure>>

\* The sign name written only when the map holds none yet.
RequireSignNameIfAbsent(p) ==
  /\ ~crashed
  /\ call[p].pc = "signName"
  /\ Params' = IF KSignName \in DOMAIN Params THEN Params
                ELSE Put(Params, KSignName, call[p].args.signName)
  /\ call' = [call EXCEPT ![p].pc = "templateCode"]
  /\ UNCHANGED <<accessKeySecret, crashed, pure>>

RequireSignName(p) ==
  /\ ~crashed
  /\ call[p].pc = "signName"
  /\ Params' = Put(Params, KSignName, call[p].args.signName)
  /\ call' = [call EXCEPT ![p].pc = "templateCode"]
  /\ UNCHANGED <<accessKeySecret, crashed, pure>>

RequireTemplateCode(p) ==
  /\ ~crashed
  /\ call[p].pc = "templateCode"
  /\ Params' = Put(Params, KTemplateCode, call[p].args.templateCode)
  /\ call' = [call EXCEPT ![p].pc = "templateParam"]
  /\ UNCHANGED <<accessKeySecret, crashed, pure>>

RequireTemplateParam(p) ==
  /\ ~crashed
  /\ call[p].pc = "templateParam"
  /\ Params' = Put(Params, KTemplateParam, call[p].args.templateParam)
  /\ call' = [call EXCEPT ![p].pc = "sign"]
  /\ UNCHANGED <<accessKeySecret, crashed, pure>>

\* sign := c.SignedString(); values is the copy of the map SortedQueryStr
\* makes inside it.
Sign(p) ==
  /\ ~crashed
  /\ call[p].pc = "sign"
  /\ \E order \in Orders(Params) :
       call' = [call EXCEPT ![p].pc = "query",
                            ![p].values = SetAll(<<>>, Params, order),
                            ![p].sign = SignedString(Params, accessKeySecret, order)]
  /\ UNCHANGED <<Params, accessKeySecret, crashed, pure>>

\* The signature stored in the map before the query string is built.
QueryStoresSignature(p) ==
  /\ ~crashed
  /\ call[p].pc = "query"
  /\ Params' = Put(Params, KSignature, call[p].sign)
  /\ \E order \in Orders(Params') :
       LET q == SortedQueryStr(Params', order)
       IN  call' = [call EXCEPT ![p].pc = "request", ![p].sortedQueryStr = q,
                                ![p].rawQuery = q]
  /\ UNCHANGED <<accessKeySecret, crashed, pure>>

\* sortedQueryStr := c.SortedQueryStr() and the raw query.
Query(p) ==
  /\ ~crashed
  /\ call[p].pc = "query"
  /\ \E order \in Orders(Params) :
       LET q == SortedQueryStr(Params, order)
       IN  call' = [call EXCEPT ![p].pc = "request", ![p].sortedQueryStr = q,
                                ![p].rawQuery = RawQuery(call[p].sign, q)]
  /\ UNCHANGED <<Params, accessKeySecret, crashed, pure>>

\* http.NewRequest, c.Do, ioutil.ReadAll, json.Unmarshal and the result.
Transmit(p) ==
  /\ ~crashed
  /\ call[p].pc = "request"
  /\ \E fail \in Failures, buf \in Bodies :
       call' = [call EXCEPT ![p].pc = "done",
                            ![p].sent = @ + (IF fail = "NewRequest" THEN 0 ELSE 1),
                            ![p].fail = fail,
                            ![p].buf = IF fail = "nil" THEN buf ELSE Malformed,
                            ![p].ret = Outcome(fail, buf)]
  /\ UNCHANGED <<Params, accessKeySecret, crashed, pure>>

\* Send has returned; the goroutine may call it again.
Return(p) ==
  /\ ~crashed
  /\ call[p].pc = "done"
  /\ call' = [call EXCEPT ![p] = Idle]
  /\ UNCHANGED <<Params, accessKeySecret, crashed, pure>>

\* A call made while no other call is in flight (the caller serialises).
Send(p) ==
  /\ \A q \in Procs \ {p} : call[q].pc = "idle"
  /\ \E args \in Args, params \in SeqsUpTo(Options, MaxParams), now \in Nows, UUID \in UUIDs :
       Begin(p, args, params, now, UUID)

\* A call made whatever the other goroutine is doing.
SendConcurrently(p) ==
  \E args \in Args, params \in SeqsUpTo(ConcOptions, MaxConcParams), now \in Nows, UUID \in UUIDs :
    Begin(p, args, params, now, UUID)

InMap(p) == call[p].pc \in {"override", "signName", "templateCode", "templateParam", "sign", "query"}

\* Two goroutines inside the unsynchronised map at once: the runtime may
\* end the program ("concurrent map writes").
Crash ==
  /\ ~crashed
  /\ \E p, q \in Procs : p # q /\ InMap(p) /\ InMap(q)
  /\ crashed' = TRUE
  /\ UNCHANGED <<Params, accessKeySecret, call, pure>>

Step(p) ==
  \/ Override(p)
  \/ RequirePhoneNumbers(p)
  \/ RequireSignName(p)
  \/ RequireTemplateCode(p)
  \/ RequireTemplateParam(p)
  \/ Sign(p)
  \/ Query(p)
  \/ Transmit(p)

\* One goroutine uses the client.
Next == Send(1) \/ Step(1) \/ Return(1)

Spec == Init /\ [][Next]_vars

\* Two goroutines each call Send once on a fresh client, with no
\* serialisation.
NextConc == \E p \in Procs : SendConcurrently(p) \/ Step(p) \/ Crash

SpecConc == Init /\ [][NextConc]_vars

(***************************************************************************)
(* The exported functions called on their own                               *)
(***************************************************************************)

\* A caller holds a string str (pure.in) to encode.
InitEscape ==
  /\ \E id \in AccessKeyIDs : Params = NewClient(id)
  /\ accessKeySecret \in Secrets
  /\ call = [p \in Procs |-> Idle]
  /\ crashed = FALSE
  /\ \E str \in EncStrings : pure = [NoPure EXCEPT !.in = str]

\* SpecialURLEncode(str)
CallSpecialURLEncode ==
  /\ pure' = [pure EXCEPT !.op = "SpecialURLEncode", !.out = SpecialURLEncode(pure.in)]
  /\ UNCHANGED <<Params, accessKeySecret, call, crashed>>

NextEscape == CallSpecialURLEncode

SpecEscape == InitEscape /\ [][NextEscape]_vars

\* A caller writes c.Params[k] = v (Params is an exported field); log
\* records the writes in the order made.
SetParam(k, v) ==
  /\ Len(pure.log) < MaxEncKeys
  /\ Params' = Put(Params, k, v)
  /\ pure' = [NoPure EXCEPT !.log = Append(pure.log, <<k, v>>)]
  /\ UNCHANGED <<accessKeySecret, call, crashed>>

\* c.SortedQueryStr()
CallSortedQueryStr ==
  /\ \E order \in Orders(Params) :
       pure' = [pure EXCEPT !.op = "SortedQueryStr", !.in = <<>>,
                            !.out = SortedQueryStr(Params, order)]
  /\ UNCHANGED <<Params, accessKeySecret, call, crashed>>

\* c.SignedString()
CallSignedString ==
  /\ \E order \in Orders(Params) :
       pure' = [pure EXCEPT !.op = "SignedString", !.in = <<>>,
                            !.out = SignedString(Params, accessKeySecret, order)]
  /\ UNCHANGED <<Params, accessKeySecret, call, crashed>>

\* sms.SignedString() of the SMS type, on the same parameters and secret.
CallSMSSignedString ==
  /\ \E order \in Orders(Params) :
       pure' = [pure EXCEPT !.op = "SMS.SignedString", !.in = <<>>,
                            !.out = SMSSignedString(Params, accessKeySecret, order)]
  /\ UNCHANGED <<Params, accessKeySecret, call, crashed>>

InitEnc ==
  /\ \E id \in AccessKeyIDs : Params = NewClient(id)
  /\ accessKeySecret \in EncSecrets
  /\ call = [p \in Procs |-> Idle]
  /\ crashed = FALSE
  /\ pure = NoPure

NextEnc ==
  \/ \E k \in EncKeys, v \in EncVals : SetParam(k, v)
  \/ CallSortedQueryStr
  \/ CallSignedString
  \/ CallSMSSignedString

SpecEnc == InitEnc /\ [][NextEnc]_vars

(***************************************************************************)
(* Reading a query string back                                              *)
(***************************************************************************)

\* The n-th smallest element of a set of numbers.
Nth(S, n) == CHOOSE i \in S : Cardinality({j \in S : j < i}) = n - 1

\* The pieces of s between the occurrences of the character sep.
Split(s, sep) ==
  LET at == {i \in 1..Len(s) : s[i] = sep}
      n == Cardinality(at)
  IN  [j \in 1..(n + 1) |->
         SubSeq(s, IF j = 1 THEN 1 ELSE Nth(at, j - 1) + 1,
                   IF j = n + 1 THEN Len(s) ELSE Nth(at, j) - 1)]

\* The key=value pairs of a query string, in the order they appear.
Pairs(q) ==
  LET ps == Split(q, "&")
  IN  [i \in 1..Len(ps) |->
         LET kv == Split(ps[i], "=") IN [key |-> kv[1], value |-> kv[2]]]

HexVal(c) == CHOOSE n \in 0..15 : upperhex[n + 1] = c

\* The string an escaped string stands for: "+" is a space, %XX the byte XX.
RECURSIVE Unescape(_)
Unescape(s) ==
  IF s = <<>> THEN <<>>
  ELSE IF Head(s) = "+" THEN <<" ">> \o Unescape(Tail(s))
  ELSE IF Head(s) = "%"
    THEN <<Ascii[16 * HexVal(s[2]) + HexVal(s[3]) - 31]>> \o Unescape(SubSeq(s, 4, Len(s)))
    ELSE <<Head(s)>> \o Unescape(Tail(s))

\* The store a sequence of writes builds on top of base.
RECURSIVE BuildStore(_, _)
BuildStore(base, writes) ==
  IF writes = <<>> THEN base
  ELSE BuildStore(Put(base, writes[1][1], writes[1][2]), Tail(writes))

\* The same writes made in another order.
Rearrangements(writes) ==
  {[i \in 1..Len(writes) |-> writes[f[i]]] : f \in Perms(1..Len(writes))}

(***************************************************************************)
(* Properties of the encoder and the signer (SpecEscape, SpecEnc)           *)
(***************************************************************************)

\* C3, as stated: the pairs of the string SortedQueryStr returns are in
\* strictly ascending byte order of their encoded keys.
C3_SortedByEncodedKey ==
  pure.op = "SortedQueryStr" =>
    LET ps == Pairs(pure.out)
    IN  \A i \in 1..(Len(ps) - 1) : Less(ps[i].key, ps[i + 1].key)

\* C3, amended: the pairs of the string SortedQueryStr returns are in
\* strictly ascending byte order of their raw keys (the keys before escaping),
\* one pair per key of the store, whatever order the map was ranged in.
C3_SortedByRawKey ==
  pure.op = "SortedQueryStr" =>
    LET ps == Pairs(pure.out)
    IN  /\ {Unescape(ps[i].key) : i \in 1..Len(ps)} = DOMAIN Params
        /\ Len(ps) = Cardinality(DOMAIN Params)
        /\ \A i \in 1..(Len(ps) - 1) : Less(Unescape(ps[i].key), Unescape(ps[i + 1].key))

\* SortedQueryStr has returned for a store where raw and encoded order differ.
C3_Witness ==
  /\ pure.op = "SortedQueryStr"
  /\ {<<" ">>, <<"!">>} \subseteq DOMAIN Params
  /\ Less(<<" ">>, <<"!">>)
  /\ Less(QueryEscape(<<"!">>), QueryEscape(<<" ">>))

\* C4: in the string SortedQueryStr returns, every key and every value is
\* the SpecialURLEncode of the raw key or value (a space is %20, never +).
C4_PairsUseCorrectedEscaper ==
  pure.op = "SortedQueryStr" =>
    LET ps == Pairs(pure.out)
    IN  {<<ps[i].key, ps[i].value>> : i \in 1..Len(ps)}
          = {<<SpecialURLEncode(k), SpecialURLEncode(Params[k])>> : k \in DOMAIN Params}

\* C5: what SpecialURLEncode returns contains no "+", no "*" and no "%7E".
C5_EscapingCorrectionLaw ==
  pure.op = "SpecialURLEncode" =>
    /\ ~Contains(pure.out, <<"+">>)
    /\ ~Contains(pure.out, <<"*">>)
    /\ ~Contains(pure.out, <<"%", "7", "E">>)

\* SpecialURLEncode has returned for an input holding a space, "*" and "~".
C5_Witness ==
  /\ pure.op = "SpecialURLEncode"
  /\ pure.in = <<" ", "*", "~">>
  /\ pure.out = <<"%", "2", "0", "%", "2", "A", "~">>

\* C6: every SignedString variant returns SpecialURLEncode applied once to
\* the base64 encoding of the digest.
C6_VariantsEscapeOnce ==
  pure.op \in {"SignedString", "SMS.SignedString"} =>
    \A order \in Orders(Params) :
      pure.out = SpecialURLEncode(
                   EncodeToString(Sum(accessKeySecret \o <<"&">>, StringToSign(Params, order))))

\* C10: the string SortedQueryStr returns and the signature SignedString
\* returns are the same for every order the map is ranged in and for every
\* store holding the same pairs, whatever order its writes were made in.
C10_Determinism ==
  LET base == [k \in {KAccessKeyId} |-> Params[KAccessKeyId]]
      same == {w \in Rearrangements(pure.log) : BuildStore(base, w) = Params}
  IN  /\ pure.op = "SortedQueryStr" =>
           \A w \in same : \A order \in Orders(BuildStore(base, w)) :
             SortedQueryStr(BuildStore(base, w), order) = pure.out
      /\ pure.op = "SignedString" =>
           \A w \in same : \A order \in Orders(BuildStore(base, w)) :
             SignedString(BuildStore(base, w), accessKeySecret, order) = pure.out

\* SignedString has returned for a store two writes of different keys built,
\* which the same writes in the other order build too.
C10_Witness ==
  /\ pure.op = "SignedString"
  /\ Len(pure.log) >= 2
  /\ pure.log[1][1] # pure.log[2][1]
  /\ Cardinality({w \in Rearrangements(pure.log) :
                    BuildStore([k \in {KAccessKeyId} |-> Params[KAccessKeyId]], w) = Params}) >= 2

(***************************************************************************)
(* Properties of Send (Spec, SpecConc)                                      *)
(***************************************************************************)

\* The call of p has computed its signature.
Signed(p) == call[p].pc \in {"query", "request", "done"}

RequiredKeys == {KPhoneNumbers, KSignName, KTemplateCode, KTemplateParam}

\* The value of a required business field that the arguments of a call ask
\* for.
Required(args, k) ==
  IF k = KPhoneNumbers THEN Join(args.phoneNumbers, <<",">>)
  ELSE IF k = KSignName THEN args.signName
  ELSE IF k = KTemplateCode THEN args.templateCode
  ELSE args.templateParam

\* The positions of the params of a call that write key k.
Targets(params, k) == {i \in 1..Len(params) : params[i].k = k}

\* C1: the values a Send signs are, for a required business field, the
\* call's own argument, whatever params it was given; for any other key,
\* the value of the last of its params that writes the key, else the
\* default the call seeded.
C1_OverrideOrdering ==
  \A p \in Procs : Signed(p) =>
    LET c == call[p]
        D == SetDefaults(<<>>, c.now, c.UUID)
    IN  /\ \A k \in RequiredKeys :
             k \in DOMAIN c.values /\ c.values[k] = Required(c.args, k)
        /\ \A k \in DOMAIN D :
             /\ k \in DOMAIN c.values
             /\ c.values[k] = IF Targets(c.params, k) # {}
                                THEN c.params[Nth(Targets(c.params, k), Cardinality(Targets(c.params, k)))].v
                                ELSE D[k]

\* A call has signed after an earlier call with another sign name, with two
\* overrides of its own, one of them of a defaulted key.
C1_Witness ==
  /\ Signed(1)
  /\ Len(call[1].params) = 2
  /\ Targets(call[1].params, KSignatureNonce) # {}
  /\ KOutId \in DOMAIN Params
  /\ Targets(call[1].params, KOutId) = {}
  /\ call[1].values[KSignName] = call[1].args.signName

\* C2: the parameter store never holds a Signature key, so neither the
\* copy SignedString signs nor the canonical string has one, while the
\* query string built for transmission starts with Signature=<the
\* signature> and has that one pair more.
C2_SignatureExcluded ==
  /\ KSignature \notin DOMAIN Params
  /\ \A p \in Procs :
       /\ Signed(p) => KSignature \notin DOMAIN call[p].values
       /\ call[p].pc = "request" =>
            LET canonical == Pairs(call[p].sortedQueryStr)
                sent == Pairs(call[p].rawQuery)
            IN  /\ \A i \in DOMAIN canonical : canonical[i].key # KSignature
                /\ sent[1] = [key |-> KSignature, value |-> call[p].sign]
                /\ Len(sent) = Len(canonical) + 1

\* A later Send on the same client (the OutId of an earlier one is still in
\* the store) has built its query string.
C2_Witness ==
  /\ call[1].pc = "request"
  /\ KOutId \in DOMAIN Params
  /\ Targets(call[1].params, KOutId) = {}
  /\ HasPrefix(call[1].rawQuery, KSignature \o <<"=">>)

OKSpellings == {<<"O", "K">>, <<"O", "k">>, <<"o", "K">>, <<"o", "k">>}

\* C7: when nothing failed and the body decoded, Send returns no error and
\* the decoded Response, with success exactly when Code is OK in any case.
C7_Classification ==
  \A p \in Procs :
    (call[p].pc = "done" /\ call[p].fail = "nil" /\ call[p].buf.json) =>
      /\ call[p].ret.err = "nil"
      /\ call[p].ret.response = Unmarshal(call[p].buf).response
      /\ call[p].ret.ok <=> (call[p].ret.response[1].Code \in OKSpellings)

\* A Send has returned success for the code "ok".
C7_Witness ==
  /\ call[1].pc = "done"
  /\ call[1].fail = "nil"
  /\ call[1].buf.json
  /\ call[1].ret.response[1].Code = <<"o", "k">>
  /\ call[1].ret.ok

\* C8: when building the request, the transport, reading the body or
\* decoding it fails, Send returns (false, nil, an error); it returns a
\* Response only when all four succeeded; the request is sent at most once.
C8_FailureAborts ==
  \A p \in Procs :
    /\ call[p].sent <= 1
    /\ call[p].pc = "done" =>
         /\ (call[p].fail # "nil" \/ ~call[p].buf.json) =>
              /\ ~call[p].ret.ok
              /\ call[p].ret.response = <<>>
              /\ call[p].ret.err \in {"NewRequest", "Do", "ReadAll", "Unmarshal"}
         /\ call[p].ret.response # <<>> => (call[p].fail = "nil" /\ call[p].buf.json)
         /\ call[p].sent = IF call[p].fail = "NewRequest" THEN 0 ELSE 1

\* A Send has returned after a body that does not decode.
C8_Witness ==
  /\ call[1].pc = "done"
  /\ call[1].fail = "nil"
  /\ ~call[1].buf.json
  /\ call[1].ret.err = "Unmarshal"
  /\ call[1].ret.response = <<>>

\* The calls that have started.
Started == {q \in Procs : call[q].pc # "idle"}

\* C9: Send takes no lock (a goroutine that is not in Send can always
\* enter it, whatever the other one is doing), and the required business
\* fields a signature covers are those last written to the shared map, by
\* whichever started call wrote them: the signing call or the other one.
C9_SharedParamsRace ==
  /\ \A p \in Procs : (call[p].pc = "idle" /\ ~crashed) => ENABLED SendConcurrently(p)
  /\ \A p \in Procs : Signed(p) =>
       \A k \in RequiredKeys :
         \E q \in Started : call[p].values[k] = Required(call[q].args, k)

\* The signature of one call covers the sign name, and the phone numbers,
\* that the other call wrote.
C9_Witness ==
  \E p, q \in Procs :
    /\ p # q
    /\ Signed(p)
    /\ q \in Started
    /\ call[p].args.signName # call[q].args.signName
    /\ call[p].values[KSignName] = call[q].args.signName
    /\ call[p].values[KPhoneNumbers] = Required(call[q].args, KPhoneNumbers)
    /\ call[p].values[KPhoneNumbers] # Required(call[p].args, KPhoneNumbers)

\* C11: the access key ID NewClient stored is never written again: no step
\* of any Send, with any of the options, changes Params["AccessKeyId"], and
\* it is the value every signature covers.
C11_AccessKeyIdFrame ==
  [][/\ KAccessKeyId \in DOMAIN Params'
     /\ Params'[KAccessKeyId] = Params[KAccessKeyId]
     /\ \A p \in Procs :
          Signed(p)' => call'[p].values[KAccessKeyId] = Params[KAccessKeyId]]_vars

\* A later Send on the client, given two options, has signed with the
\* access key ID of construction.
C11_Witness ==
  /\ Signed(1)
  /\ Len(call[1].params) = 2
  /\ KOutId \in DOMAIN Params
  /\ Targets(call[1].params, KOutId) = {}
  /\ call[1].values[KAccessKeyId] \in AccessKeyIDs

\* The keys Send gives a default that an option can replace.
DefaultableKeys ==
  {KTimestamp, KSignatureMethod, KSignatureVersion, KSignatureNonce, KAction, KVersion,
   KRegionId}

\* The documented default of a defaultable key, for a call made at time T1
\* that drew the nonce UUID.
DocumentedDefault(k, UUID) ==
  IF k = KTimestamp THEN <<"2", "0", "1", "7", "-", "0", "1", "-", "0", "2", "T", "0", "3", ":", "0", "4", ":", "0", "5", "Z">>
  ELSE IF k = KSignatureMethod THEN <<"H", "M", "A", "C", "-", "S", "H", "A", "1">>
  ELSE IF k = KSignatureVersion THEN <<"1", ".", "0">>
  ELSE IF k = KSignatureNonce THEN UUID
  ELSE IF k = KAction THEN <<"S", "e", "n", "d", "S", "m", "s">>
  ELSE IF k = KVersion THEN <<"2", "0", "1", "7", "-", "0", "5", "-", "2", "5">>
  ELSE <<"c", "n", "-", "h", "a", "n", "g", "z", "h", "o", "u">>

\* C12: for every defaultable key, what a Send signs is the value of the
\* last of its own params that writes the key, and the documented default
\* when it has none, whatever earlier Sends on the client were given.
C12_DefaultsReseeded ==
  \A p \in Procs : Signed(p) =>
    \A k \in DefaultableKeys :
      LET at == Targets(call[p].params, k)
      IN  call[p].values[k] =
            IF at = {} THEN DocumentedDefault(k, call[p].UUID)
            ELSE call[p].params[CHOOSE i \in at : \A j \in at : j <= i].v

\* A later Send on the client has signed: it was given two nonces, of which
\* the second is signed, and no region, of which the default is signed.
C12_Witness ==
  /\ Signed(1)
  /\ KOutId \in DOMAIN Params
  /\ Targets(call[1].params, KOutId) = {}
  /\ call[1].params = <<SignatureNonce(<<"n">>), SignatureNonce(<<"m">>)>>
  /\ call[1].values[KSignatureNonce] = <<"m">>
  /\ call[1].values[KRegionId] = <<"c", "n", "-", "h", "a", "n", "g", "z", "h", "o", "u">>

\* C13: in a Send no other call interferes with, the query string built for
\* transmission is "Signature=" + signature + "&" + canonical, where
\* canonical, computed after signing, is the canonical string of the very
\* parameters the signature was computed over, so that the signature is the
\* signature of that canonical string.
C13_TransmittedQuery ==
  \A p \in Procs : call[p].pc = "request" =>
    LET c == call[p]
    IN  /\ c.rawQuery = KSignature \o <<"=">> \o c.sign \o <<"&">> \o c.sortedQueryStr
        /\ \A order \in Orders(c.values) :
             /\ c.sortedQueryStr = SortedQueryStr(c.values, order)
             /\ c.sign = SpecialURLEncode(EncodeToString(
                           Sum(accessKeySecret \o <<"&">>,
                               <<"G", "E", "T", "&", "%", "2", "F", "&">>
                                 \o SpecialURLEncode(c.sortedQueryStr))))

\* A Send given an option has built its query string, which holds the
\* signature and then the canonical string with the option's OutId.
C13_Witness ==
  /\ call[1].pc = "request"
  /\ Targets(call[1].params, KOutId) # {}
  /\ HasPrefix(call[1].rawQuery, KSignature \o <<"=">> \o call[1].sign \o <<"&">>)
  /\ Contains(call[1].sortedQueryStr, KOutId \o <<"=">> \o <<"o">>)
  /\ call[1].sign # <<>>

\* The step applies a param of p that writes key k with the value Params
\* holds for k afterwards.
Overrides(p, k) ==
  /\ call[p].pc = "override"
  /\ call[p].i <= Len(call[p].params)
  /\ call[p].params[call[p].i] = [k |-> k, v |-> Params'[k]]

\* C14: no step removes a key from Params; OutId, which has no default, once
\* set keeps its value in every step but the application of a param that
\* writes OutId; and whenever a Send has signed, and whenever it has built
\* the query string it transmits, OutId is among the signed parameters and
\* in the query string with the value Params holds, also in a Send that was
\* given no such param.
C14_KeysNeverRemoved ==
  [][/\ DOMAIN Params \subseteq DOMAIN Params'
     /\ KOutId \in DOMAIN Params =>
          \/ Params'[KOutId] = Params[KOutId]
          \/ \E p \in Procs : Overrides(p, KOutId)
     /\ \A p \in Procs :
          (KOutId \in DOMAIN Params' /\ Signed(p)') =>
            /\ KOutId \in DOMAIN call'[p].values
            /\ call'[p].values[KOutId] = Params'[KOutId]
            /\ call'[p].pc = "request" =>
                 Contains(call'[p].rawQuery,
                          <<"&">> \o KOutId \o <<"=">> \o QueryEscape(Params'[KOutId]) \o <<"&">>)]_vars

\* A Send given no param writing OutId, on a client whose earlier Send set
\* it, has built its query string, which carries the earlier value.
C14_Witness ==
  /\ call[1].pc = "request"
  /\ Targets(call[1].params, KOutId) = {}
  /\ KOutId \in DOMAIN call[1].values
  /\ call[1].values[KOutId] = <<"o">>
  /\ \E i \in DOMAIN Pairs(call[1].sortedQueryStr) :
       Pairs(call[1].sortedQueryStr)[i] = [key |-> KOutId, value |-> <<"o">>]

====
